---- MODULE Spec2Model ----
(***************************************************************************)
(* Model of gossip's all-to-all engines:                                   *)
(*   all2all_graph_t  (include/gossip/all_to_all_graph.cuh):               *)
(*       prepareExec + execAsync(stream)                                   *)
(*   all2all_t        (unnamed/part_001): execAsync, which bookkeeps with  *)
(*       transfer_handler_graph and runs it through execute()              *)
(* The bookkeeper (add_transfer), the capture of the execution graph       *)
(* (update_graph), the validation and the buffer-role swap are translated  *)
(* from the source; device memory is modelled cell by cell so that the     *)
(* final layout is something the copies produce.                           *)
(***************************************************************************)
EXTENDS Integers, Sequences, FiniteSets, TLC

\* ---------------------------------------------------------------- bounds
NumDevices == 2
MaxCount == 3
MaxLaunch == 1

Devices == 0 .. (NumDevices - 1)

\* ------------------------------------------------------- small utilities
Min(a, b) == IF a < b THEN a ELSE b
Max(a, b) == IF a < b THEN b ELSE a

\* SDIV(x, y): the rounded-up quotient used for the per-chunk size.
SDIV(x, y) == (x + y - 1) \div y

\* The size of a vector modelled as a function on 0 .. k-1.
VSize(v) == Cardinality(DOMAIN v)

\* ------------------------------------------------- send-count workloads
\* sizes[s][d]: elements on device s destined for device d.  The workloads
\* are the skewed tables (a + s + 2d) mod (MaxCount+1).
SkewTable(a) == [s \in Devices |-> [d \in Devices |-> (a + s + 2 * d) % (MaxCount + 1)]]
Tables == {SkewTable(a) : a \in 0 .. MaxCount}

RECURSIVE SumTo(_, _)
\* f[0] + ... + f[n-1]
SumTo(f, n) == IF n = 0 THEN 0 ELSE SumTo(f, n - 1) + f[n - 1]

RowSum(t, s) == SumTo(t[s], NumDevices)
ColSum(t, d) == SumTo([s \in Devices |-> t[s][d]], NumDevices)
GrandTotal(t) == SumTo([s \in Devices |-> RowSum(t, s)], NumDevices)
MaxRowSum(t) == CHOOSE m \in {RowSum(t, s) : s \in Devices} : \A s \in Devices : RowSum(t, s) <= m
MaxColSum(t) == CHOOSE m \in {ColSum(t, d) : d \in Devices} : \A d \in Devices : ColSum(t, d) <= m

\* --------------------------------------------------------- routing plans
\* transfer_plan_t as the engine consumes it: valid(), num_gpus(),
\* num_steps(), num_chunks(), transfer_sequences() (ordered, each with seq
\* and size).
PairOf(i) == <<(i - 1) \div NumDevices, (i - 1) % NumDevices>>

MkPlan(v, g, p, c, sq) ==
    [valid |-> v, num_gpus |-> g, num_steps |-> p, num_chunks |-> c, seqs |-> sq]

\* all2all::default_plan: one direct hop for every pair, one chunk.
DirectSeqs == [i \in 1 .. NumDevices * NumDevices |->
                 [seq |-> <<PairOf(i)[1], PairOf(i)[2]>>, size |-> 1]]
DefaultPlan == MkPlan(TRUE, NumDevices, 1, 1, DirectSeqs)

\* One phase, two chunks, each pair routed once with relative size 2.
WidePlan == MkPlan(TRUE, NumDevices, 1, 2,
                [i \in 1 .. NumDevices * NumDevices |->
                    [seq |-> <<PairOf(i)[1], PairOf(i)[2]>>, size |-> 2]])

\* Two phases through hub device 0, two chunks, every pair routed twice
\* (first all first chunks, then all second chunks).
HubSeqs == [i \in 1 .. 2 * NumDevices * NumDevices |->
              LET j == ((i - 1) % (NumDevices * NumDevices)) + 1
              IN  [seq |-> <<PairOf(j)[1], 0, PairOf(j)[2]>>, size |-> 1]]
HubPlan == MkPlan(TRUE, NumDevices, 2, 2, HubSeqs)

\* Three phases through devices 0 and 1, one chunk.
ChainPlan == MkPlan(TRUE, NumDevices, 3, 1,
                [i \in 1 .. NumDevices * NumDevices |->
                    [seq |-> <<PairOf(i)[1], 0, 1, PairOf(i)[2]>>, size |-> 1]])

\* Plans the constructor leaves with plan_valid false: one whose valid flag
\* is still false after the constructor's verify_plan, one built for another
\* device count.
UnverifiedPlan == MkPlan(FALSE, NumDevices, 1, 1, DirectSeqs)
ForeignPlan == MkPlan(TRUE, NumDevices + 1, 1, 1, DirectSeqs)

\* A plan flagged valid although its second hop sequence has one hop too
\* many: the case add_transfer's own length check is written for.
BadHopPlan == MkPlan(TRUE, NumDevices, 1, 1,
                [i \in 1 .. NumDevices * NumDevices |->
                    IF i = 2 THEN [seq |-> <<0, 0, 1>>, size |-> 1] ELSE DirectSeqs[i]])

ValidatedPlans == {DefaultPlan, WidePlan, HubPlan, ChainPlan}
Plans == ValidatedPlans \cup {UnverifiedPlan, ForeignPlan}
UncheckedPlans == Plans \cup {BadHopPlan}

\* A plan routes every pair in full when all hop sequences have P+1 hops and
\* the relative sizes of every pair add up to the chunk count.
RECURSIVE RelSum(_, _, _, _)
RelSum(sq, n, s, d) ==
    IF n = 0 THEN 0
    ELSE RelSum(sq, n - 1, s, d)
         + (IF sq[n].seq[1] = s /\ sq[n].seq[Len(sq[n].seq)] = d THEN sq[n].size ELSE 0)
RoutesInFull(pl) ==
    /\ \A i \in DOMAIN pl.seqs : Len(pl.seqs[i].seq) = pl.num_steps + 1
    /\ \A s, d \in Devices : RelSum(pl.seqs, Len(pl.seqs), s, d) = pl.num_chunks

\* ------------------------------------------------- displacement computer
\* The scan written from index 0 on.
SrcDisplacementsInclusive(sc) ==
    [gpu \in Devices |->
        [j \in 0 .. NumDevices |-> SumTo(sc[gpu], Min(j + 1, NumDevices))]]

\* Horizontal scan: src_displacements[gpu][0] = 0 and std::partial_sum of
\* row gpu written from index 1 on.
SrcDisplacements(sc) ==
    [gpu \in Devices |-> [j \in 0 .. NumDevices |-> SumTo(sc[gpu], j)]]

RECURSIVE TrgScan(_, _, _)
\* Vertical scan: trg[part+1][gpu] = send_counts[part][gpu] + trg[part][gpu].
TrgScan(sc, part, gpu) ==
    IF part = 0 THEN 0 ELSE sc[part - 1][gpu] + TrgScan(sc, part - 1, gpu)
TrgDisplacements(sc) ==
    [part \in 0 .. NumDevices |-> [gpu \in Devices |-> TrgScan(sc, part, gpu)]]

\* ---------------------------------------------------- transfer bookkeeper
NoHandler == [none |-> TRUE]

\* transfer_handler_graph's constructor: cursors start at the displacements,
\* the num_phases-1 intermediate cursor rows start at 0, the phase lists are
\* empty.
TransferHandler(src_disp, trg_disp, sizes_, num_phases_, num_chunks_) ==
    [src_offsets       |-> src_disp,
     phases_offsets    |-> [p \in 0 .. (num_phases_ - 2) |-> [d \in Devices |-> 0]],
     trg_offsets       |-> trg_disp,
     src_displacements |-> src_disp,
     sizes             |-> sizes_,
     num_phases        |-> num_phases_,
     phases            |-> [p \in 0 .. (num_phases_ - 1) |-> <<>>],
     num_chunks        |-> num_chunks_]

Front(sequence) == sequence[1]
Back(sequence) == sequence[Len(sequence)]

\* A nominal length from the rounded-down quotient.
NominalSizeFloor(h, sequence, chunks) ==
    (h.sizes[Front(sequence)][Back(sequence)] \div h.num_chunks) * chunks

\* The nominal length: size_per_chunk * chunks.
NominalSize(h, sequence, chunks) ==
    SDIV(h.sizes[Front(sequence)][Back(sequence)], h.num_chunks) * chunks

\* The end of the pair's region of the source buffer.
Limit(h, sequence) ==
    h.src_displacements[Front(sequence)][Back(sequence)]
        + h.sizes[Front(sequence)][Back(sequence)]

\* A length that is never cut.
TransferSizeUnclamped(h, sequence, chunks) == NominalSize(h, sequence, chunks)

\* A length cut one short of what is left of the region.
TransferSizeShort(h, sequence, chunks) ==
    IF h.src_offsets[Front(sequence)][Back(sequence)] + NominalSize(h, sequence, chunks)
           > Limit(h, sequence)
    THEN Max(Limit(h, sequence) - h.src_offsets[Front(sequence)][Back(sequence)] - 1, 0)
    ELSE NominalSize(h, sequence, chunks)

\* The resolved length: the nominal one, cut to what is left of the region.
TransferSize(h, sequence, chunks) ==
    IF h.src_offsets[Front(sequence)][Back(sequence)] + NominalSize(h, sequence, chunks)
           > Limit(h, sequence)
    THEN Limit(h, sequence) - h.src_offsets[Front(sequence)][Back(sequence)]
    ELSE NominalSize(h, sequence, chunks)

\* A descriptor that reads and writes at the source cursor.
TransferAtSrcCursor(h, sequence, phase, transfer_size) ==
    [src_gpu |-> sequence[phase + 1],
     src_pos |-> h.src_offsets[Front(sequence)][Back(sequence)],
     trg_gpu |-> sequence[phase + 2],
     trg_pos |-> h.src_offsets[Front(sequence)][Back(sequence)],
     len     |-> transfer_size]

\* A descriptor whose intermediate target position is read from the cursor
\* of the device it is sent from.
TransferUnchained(h, sequence, phase, transfer_size) ==
    [src_gpu |-> sequence[phase + 1],
     src_pos |-> IF phase = 0
                 THEN h.src_offsets[Front(sequence)][Back(sequence)]
                 ELSE h.phases_offsets[phase - 1][sequence[phase + 1]],
     trg_gpu |-> sequence[phase + 2],
     trg_pos |-> IF phase = h.num_phases - 1
                 THEN h.trg_offsets[Front(sequence)][Back(sequence)]
                 ELSE h.phases_offsets[phase][sequence[phase + 1]],
     len     |-> transfer_size]

\* The descriptor of phase `phase` (0-based; sequence[phase] of the source
\* is sequence[phase+1] here): phase 0 reads at the source cursor, the last
\* phase writes at the target cursor, the phases between are chained through
\* the intermediate cursors.
Transfer(h, sequence, phase, transfer_size) ==
    [src_gpu |-> sequence[phase + 1],
     src_pos |-> IF phase = 0
                 THEN h.src_offsets[Front(sequence)][Back(sequence)]
                 ELSE h.phases_offsets[phase - 1][sequence[phase + 1]],
     trg_gpu |-> sequence[phase + 2],
     trg_pos |-> IF phase = h.num_phases - 1
                 THEN h.trg_offsets[Front(sequence)][Back(sequence)]
                 ELSE h.phases_offsets[phase][sequence[phase + 2]],
     len     |-> transfer_size]

\* A source cursor that stays where it is.
AdvanceSrcNot(h, sequence, transfer_size) == h.src_offsets

\* The cursors after a call that resolved to transfer_size.
AdvanceSrc(h, sequence, transfer_size) ==
    [h.src_offsets EXCEPT ![Front(sequence)][Back(sequence)] = @ + transfer_size]

\* Intermediate cursors that stay where they are.
AdvancePhasesNot(h, sequence, transfer_size) == h.phases_offsets

\* Intermediate cursors advanced for the device each phase sends from.
AdvancePhasesSender(h, sequence, transfer_size) ==
    [p \in DOMAIN h.phases_offsets |->
        [h.phases_offsets[p] EXCEPT ![sequence[p + 1]] = @ + transfer_size]]

\* Every intermediate cursor of the device its phase sends to is advanced.
AdvancePhases(h, sequence, transfer_size) ==
    [p \in DOMAIN h.phases_offsets |->
        [h.phases_offsets[p] EXCEPT ![sequence[p + 2]] = @ + transfer_size]]

\* A target cursor that stays where it is.
AdvanceTrgNot(h, sequence, transfer_size) == h.trg_offsets

AdvanceTrg(h, sequence, transfer_size) ==
    [h.trg_offsets EXCEPT ![Front(sequence)][Back(sequence)] = @ + transfer_size]

\* An add_transfer that moves the source cursor before it rejects a hop
\* sequence.
AddTransferEager(h, sequence, chunks) ==
    IF Len(sequence) # h.num_phases + 1
    THEN [ok |-> FALSE,
          h  |-> [h EXCEPT !.src_offsets =
                      AdvanceSrc(h, sequence, TransferSize(h, sequence, chunks))]]
    ELSE LET transfer_size == TransferSize(h, sequence, chunks)
         IN  [ok |-> TRUE,
              h  |-> [h EXCEPT
                        !.phases = [p \in DOMAIN h.phases |->
                                      Append(h.phases[p],
                                             Transfer(h, sequence, p, transfer_size))],
                        !.src_offsets = AdvanceSrc(h, sequence, transfer_size),
                        !.phases_offsets = AdvancePhases(h, sequence, transfer_size),
                        !.trg_offsets = AdvanceTrg(h, sequence, transfer_size)]]

\* add_transfer: [ok, h], the result and the handler after the call.
AddTransfer(h, sequence, chunks) ==
    IF Len(sequence) # h.num_phases + 1
    THEN [ok |-> FALSE, h |-> h]
    ELSE LET transfer_size == TransferSize(h, sequence, chunks)
         IN  [ok |-> TRUE,
              h  |-> [h EXCEPT
                        !.phases = [p \in DOMAIN h.phases |->
                                      Append(h.phases[p],
                                             Transfer(h, sequence, p, transfer_size))],
                        !.src_offsets = AdvanceSrc(h, sequence, transfer_size),
                        !.phases_offsets = AdvancePhases(h, sequence, transfer_size),
                        !.trg_offsets = AdvanceTrg(h, sequence, transfer_size)]]

\* check_size(transfer_sizes, buffer_lens): no cursor beyond its buffer.
CheckSize(transfer_sizes, buffer_lens) ==
    \A i \in DOMAIN transfer_sizes : transfer_sizes[i] <= buffer_lens[i]

\* A check of the final cursors only.
SizesOkFinalOnly(h, dsts_lens_) ==
    CheckSize(h.trg_offsets[NumDevices], dsts_lens_)

\* The checks after the bookkeeping: every intermediate cursor row, then the
\* last row of trg_offsets (the per-device totals).
SizesOk(h, dsts_lens_) ==
    /\ \A p \in DOMAIN h.phases_offsets : CheckSize(h.phases_offsets[p], dsts_lens_)
    /\ CheckSize(h.trg_offsets[NumDevices], dsts_lens_)

\* ------------------------------------------------------- execution graph
NoExec == [none |-> TRUE]
NoGraph == [p \in {} |-> <<>>]

\* A capture that reads the first buffer set and writes the second in every
\* phase.
CopyNodeSameRoles(t, p, srcs_, dsts_) ==
    [src_gpu |-> t.src_gpu,
     trg_gpu |-> t.trg_gpu,
     from    |-> srcs_[t.src_gpu],
     from_pos |-> t.src_pos,
     to      |-> dsts_[t.trg_gpu],
     to_pos  |-> t.trg_pos,
     len     |-> t.len]

\* The copy node captured for descriptor t of phase p: phases alternate
\* between the two buffer sets.
CopyNode(t, p, srcs_, dsts_) ==
    [src_gpu |-> t.src_gpu,
     trg_gpu |-> t.trg_gpu,
     from    |-> IF p % 2 = 0 THEN srcs_[t.src_gpu] ELSE dsts_[t.src_gpu],
     from_pos |-> t.src_pos,
     to      |-> IF p % 2 = 0 THEN dsts_[t.trg_gpu] ELSE srcs_[t.trg_gpu],
     to_pos  |-> t.trg_pos,
     len     |-> t.len]

\* The capture of update_graph: per phase, one copy node per descriptor, in
\* descriptor order, on the stream of its (src_gpu, trg_gpu) pair.
CaptureGraph(h, srcs_, dsts_) ==
    [p \in DOMAIN h.phases |->
        [i \in DOMAIN h.phases[p] |-> CopyNode(h.phases[p][i], p, srcs_, dsts_)]]

\* cudaGraphExecUpdate succeeds when the new graph has the topology of the
\* instantiated one: the same phases with the same streams in the same order.
SameTopology(g1, g2) ==
    /\ DOMAIN g1 = DOMAIN g2
    /\ \A p \in DOMAIN g1 :
          /\ Len(g1[p]) = Len(g2[p])
          /\ \A i \in DOMAIN g1[p] :
                /\ g1[p][i].src_gpu = g2[p][i].src_gpu
                /\ g1[p][i].trg_gpu = g2[p][i].trg_gpu

\* The results cudaGraphExecUpdate can report for an executable and a new
\* graph: failure when the topology differs; with the same topology success,
\* and with a runtime that may fail for any reason, failure as well.
UpdateResults(rt, execGraph, graph) ==
    IF execGraph = NoExec THEN {TRUE}
    ELSE IF ~SameTopology(execGraph.graph, graph) THEN {FALSE}
    ELSE IF rt \in {"flaky", "lenient"} THEN {TRUE, FALSE}
    ELSE {TRUE}

\* The CUERR that ends update_graph, after cudaGraphDestroy: the error a
\* failed cudaGraphExecUpdate left is still the last one reported, and the
\* process ends with a diagnostic, unless the build's CUERR checks nothing.
CuerrEnds(rt, execGraph, updateSuccess) ==
    /\ rt # "lenient"
    /\ execGraph # NoExec
    /\ ~updateSuccess

\* The CUDA objects update_graph creates and destroys: graphs is the number
\* of captured graph values alive, live the number of executables alive,
\* passes the capture-and-update passes made on the executable since it was
\* instantiated (2 stands for two or more), op what the last update_graph of
\* the current call did with the executable and updateResult what its
\* cudaGraphExecUpdate reported, misuse whether an executable or graph that
\* is not alive was ever updated, launched or destroyed.
NoObjects ==
    [graphs |-> 0, live |-> 0, passes |-> 0, op |-> "none",
     updateResult |-> "none", misuse |-> FALSE]

\* cudaStreamEndCapture(captureStream, &graph).
EndCapture(l) == [l EXCEPT !.graphs = @ + 1]
\* cudaGraphExecUpdate(execGraph, graph, ...).
ExecUpdate(l, updateSuccess) ==
    [l EXCEPT !.misuse = @ \/ l.live = 0,
              !.updateResult = IF updateSuccess THEN "success" ELSE "error"]
\* An update_graph that does not destroy the executable it replaces.
ExecDestroyNot(l) == l
\* cudaGraphExecDestroy(execGraph).
ExecDestroy(l) ==
    [l EXCEPT !.live = IF @ > 0 THEN @ - 1 ELSE @, !.misuse = @ \/ l.live = 0]
\* cudaGraphInstantiate(&execGraph, graph, ...).
Instantiate(l) == [l EXCEPT !.live = @ + 1, !.passes = 0]
\* cudaGraphDestroy(graph).
GraphDestroy(l) ==
    [l EXCEPT !.graphs = IF @ > 0 THEN @ - 1 ELSE @, !.misuse = @ \/ l.graphs = 0]
\* cudaGraphLaunch(execGraph, stream).
GraphLaunch(l) == [l EXCEPT !.misuse = @ \/ l.live = 0]

\* An update_graph that instantiates whenever it is called.
ExecOpAlwaysInstantiate(execGraph, updateSuccess) ==
    IF execGraph = NoExec THEN "instantiated" ELSE "rebuilt"
\* An update_graph that trusts every update.
ExecOpNeverRebuild(execGraph, updateSuccess) ==
    IF execGraph = NoExec THEN "instantiated" ELSE "updated"
\* The path update_graph takes: instantiate when there is no executable,
\* keep the updated one when the update succeeded, destroy and instantiate
\* when it did not.
ExecOp(execGraph, updateSuccess) ==
    IF execGraph = NoExec THEN "instantiated"
    ELSE IF updateSuccess THEN "updated"
    ELSE "rebuilt"

\* update_graph from the end of the capture on, as the runtime sees it.
UpdateObjects(l, execGraph, updateSuccess) ==
    LET op == ExecOp(execGraph, updateSuccess)
        captured == EndCapture(l)
        tried == IF execGraph # NoExec THEN ExecUpdate(captured, updateSuccess)
                 ELSE captured
        settled == IF op = "instantiated" THEN Instantiate(tried)
                   ELSE IF op = "rebuilt" THEN Instantiate(ExecDestroy(tried))
                   ELSE tried
        released == GraphDestroy(settled)
    IN  [released EXCEPT !.op = op, !.passes = Min(@ + 1, 2)]

\* An update_graph that never instantiates.
ExecAfterNoInstantiate(execGraph, graph, op, updateSuccess) ==
    IF op = "updated" /\ updateSuccess THEN [graph |-> graph] ELSE execGraph

\* The executable update_graph leaves: the one instantiated from the new
\* graph, the old one updated to the new graph, or (an update that reported
\* success, trusted wrongly or not) the old one.
ExecAfter(execGraph, graph, op, updateSuccess) ==
    IF op \in {"instantiated", "rebuilt"} THEN [graph |-> graph]
    ELSE IF updateSuccess THEN [graph |-> graph]
    ELSE execGraph

\* An update_graph that leaves an existing executable as it is.
UpdateGraphStale(execGraph, h, srcs_, dsts_, updateSuccess) ==
    IF execGraph = NoExec THEN [graph |-> CaptureGraph(h, srcs_, dsts_)]
    ELSE execGraph

\* update_graph: the executable after the call, given what
\* cudaGraphExecUpdate reports.
UpdateGraph(execGraph, h, srcs_, dsts_, updateSuccess) ==
    ExecAfter(execGraph, CaptureGraph(h, srcs_, dsts_),
              ExecOp(execGraph, updateSuccess), updateSuccess)

\* Node <<q, j>> is ordered before node <<p, i>> in a captured graph: the
\* capture stream joins every pair's event after a phase and each copy waits
\* on the capture stream's marker, and a pair's stream keeps its own order.
Before(graph, q, j, p, i) ==
    \/ q < p
    \/ /\ q = p
       /\ j < i
       /\ graph[p][j].src_gpu = graph[p][i].src_gpu
       /\ graph[p][j].trg_gpu = graph[p][i].trg_gpu

Nodes(graph) == UNION {{<<p, i>> : i \in DOMAIN graph[p]} : p \in DOMAIN graph}

\* The stream and event operations of the capture, call by call.  What is
\* kept of a stream (and of an event, when it is recorded) is the set of copy
\* nodes that precede its current end; order is the set of pairs <<m, n>>,
\* node m before node n, that the captured dependencies imply.
Pairs == Devices \X Devices
CaptureStart ==
    [capture |-> {},
     marker  |-> {},
     stream  |-> [pr \in Pairs |-> {}],
     event   |-> [pr \in Pairs |-> {}],
     order   |-> {}]

\* cudaEventRecord(captureEvent, captureStream) at the head of a phase.
RecordMarker(cs) == [cs EXCEPT !.marker = cs.capture]

\* A copy whose stream waits on the event recorded behind the copy itself.
EnqueueCopySelfWait(cs, graph, p, i) ==
    LET pr == <<graph[p][i].src_gpu, graph[p][i].trg_gpu>>
        before == cs.stream[pr] \cup cs.marker \cup {<<p, i>>}
    IN  [cs EXCEPT !.stream[pr] = before,
                   !.event[pr] = before,
                   !.order = @ \cup {<<m, <<p, i>>>> : m \in before}]

\* One descriptor: the pair's stream waits on the marker, the copy is
\* enqueued on it, the pair's event is recorded on it.
EnqueueCopy(cs, graph, p, i) ==
    LET pr == <<graph[p][i].src_gpu, graph[p][i].trg_gpu>>
        before == cs.stream[pr] \cup cs.marker
    IN  [cs EXCEPT !.stream[pr] = before \cup {<<p, i>>},
                   !.event[pr] = before \cup {<<p, i>>},
                   !.order = @ \cup {<<m, <<p, i>>>> : m \in before}]

\* A join that waits on the events of device 0's streams only.
JoinEventsFirstDevice(cs) ==
    [cs EXCEPT !.capture = @ \cup UNION {cs.event[<<0, j>>] : j \in Devices}]

\* The join after a phase: the capture stream waits on every pair's event
\* (an event not recorded in this capture orders nothing).
JoinEvents(cs) ==
    [cs EXCEPT !.capture = @ \cup UNION {cs.event[pr] : pr \in Pairs}]

RECURSIVE EnqueuePhase(_, _, _, _)
EnqueuePhase(cs, graph, p, n) ==
    IF n = 0 THEN RecordMarker(cs)
    ELSE EnqueueCopy(EnqueuePhase(cs, graph, p, n - 1), graph, p, n)

RECURSIVE CapturePhases(_, _)
CapturePhases(graph, n) ==
    IF n = 0 THEN CaptureStart
    ELSE JoinEvents(EnqueuePhase(CapturePhases(graph, n - 1), graph, n - 1,
                                 Len(graph[n - 1])))

\* The order among the copy nodes of a captured graph.
CaptureOrder(graph) == CapturePhases(graph, Cardinality(DOMAIN graph)).order

\* --------------------------------------------------------- device memory
\* Two buffer sets, one buffer per device (and one slot more, for vectors
\* that are too long); a buffer is a function from 0 .. allocated-1 to
\* cells.  What lies behind the declared end of a buffer is not the
\* caller's to know: the allocation may end there, or go on.
BufferSets == {"A", "B"}
Buffers == BufferSets \X (0 .. NumDevices)
Junk == <<-1, -1>>
OtherSet(b) == IF b = "A" THEN "B" ELSE "A"

\* The cell a copy reads: what the allocation holds there, nothing of use
\* where the allocation has ended.
ReadCell(m, buf, pos) == IF pos \in DOMAIN m[buf] THEN m[buf][pos] ELSE Junk

\* cudaMemcpyAsync(to, from, len): the cells of the target range that the
\* allocation holds take the source cells, within the declared length or
\* behind it.
ApplyCopy(m, node) ==
    [m EXCEPT ![node.to] =
        [k \in DOMAIN m[node.to] |->
            IF k >= node.to_pos /\ k < node.to_pos + node.len
            THEN ReadCell(m, node.from, node.from_pos + (k - node.to_pos))
            ELSE m[node.to][k]]]

\* A copy that reads or writes beyond the declared end of a buffer; lens
\* gives the declared length of every buffer.
OutOfBounds(lens, node) ==
    /\ node.len > 0
    /\ \/ node.from_pos + node.len > lens[node.from]
       \/ node.to_pos + node.len > lens[node.to]

\* The cells an allocation of a declared length can hold: just those, or
\* enough behind them for every cursor of workload t.
Allocations(len, t) == {len, Max(len, GrandTotal(t) + 1)}

\* ------------------------------------------------------ the caller's calls
\* The shapes of the arguments of a call: well-formed, or one of the vectors
\* (or the table) of the wrong size.
Shapes == {"ok", "srcs", "srcs_lens", "dsts", "dsts_lens", "rows", "cols"}

VecLen(shape, which) ==
    IF shape = which THEN (IF which \in {"srcs", "srcs_lens"} THEN NumDevices - 1
                           ELSE NumDevices + 1)
    ELSE NumDevices

\* The send-count table as passed: the workload, a row short, or with one
\* row an entry too long.
PassedTable(t, shape) ==
    IF shape = "rows" THEN [s \in 0 .. (NumDevices - 2) |-> t[s]]
    ELSE IF shape = "cols"
         THEN [s \in Devices |->
                 IF s = NumDevices - 1
                 THEN [d \in 0 .. NumDevices |-> IF d \in Devices THEN t[s][d] ELSE 0]
                 ELSE t[s]]
    ELSE t

\* The declared (and allocated) lengths the caller chooses from, the same
\* for every device, as pairs <<srcs_lens, dsts_lens>>: room to spare, target
\* buffers that just hold the largest column, and target buffers one short
\* of it.
LenChoices(t) ==
    LET roomy == GrandTotal(t) + 1
    IN  {<<roomy, roomy>>, <<roomy, MaxColSum(t)>>, <<roomy, Max(MaxColSum(t) - 1, 0)>>}

\* The calls the caller makes: <<srcs' buffer set, shape, srcs_lens, dsts_lens>>.
CallConfigs(t) ==
    {<<b, "ok", l[1], l[2]>> : b \in BufferSets, l \in LenChoices(t)}
    \cup {<<b, shape, GrandTotal(t) + 1, GrandTotal(t) + 1>> :
            b \in BufferSets, shape \in Shapes \ {"ok"}}

\* Calls with source buffers that are not roomy: as pairs <<srcs_lens,
\* dsts_lens>>, room to spare, source buffers that just hold the largest
\* row, and source buffers one short of it.
SrcLenChoices(t) ==
    LET roomy == GrandTotal(t) + 1
    IN  {<<roomy, roomy>>, <<MaxRowSum(t), roomy>>, <<Max(MaxRowSum(t) - 1, 0), roomy>>}
SrcLenConfigs(t) ==
    {<<b, "ok", l[1], l[2]>> : b \in BufferSets, l \in SrcLenChoices(t)}

\* Calls with room to spare in every buffer.
RoomyConfigs(t) ==
    {<<b, "ok", GrandTotal(t) + 1, GrandTotal(t) + 1>> : b \in BufferSets}

VARIABLES
    engine,            \* "graph": all2all_graph_t, "direct": all2all_t
    transfer_plan,     \* the engine's plan
    plan_valid,        \* the engine's plan_valid
    table,             \* the caller's workload (send counts)
    repertoire,        \* the calls the caller makes with it
    execgraphTotal,    \* all2all_graph_t::execgraphTotal
    pc,                \* where the current call stands
    srcs, dsts,        \* the caller's buffer-pointer vectors
    srcs_lens, dsts_lens,
    send_counts,
    srcs0, dsts0,      \* srcs and dsts as they were when the call began
    exec0,             \* execgraphTotal as it was when the call began
    afterFailure,      \* the call before this one returned false
    transfers0,        \* the handler of the last earlier call that built one
    transfers,         \* the call's transfer_handler_graph
    idx,               \* position in transfer_plan.transfer_sequences()
    addFailed,         \* some add_transfer of this call returned false
    ret,               \* "none", "true", "false": the call's result
    mem,               \* device memory
    fault,             \* a copy went beyond a buffer since the call began
    running,           \* the graph launched last
    done,              \* its nodes that have completed
    launches,          \* launches since the last call began
    runtime,           \* how cudaGraphExecUpdate behaves: "reliable", or it
                       \* may fail, with a CUERR that ends the process
                       \* ("flaky") or one that checks nothing ("lenient")
    replays,           \* how often the caller launches a prepared executable
    cuda               \* the CUDA runtime's objects: see NoObjects

cfgVars == <<engine, transfer_plan, plan_valid, table, repertoire, runtime, replays>>
argVars == <<srcs_lens, dsts_lens, send_counts, srcs0, dsts0, exec0, afterFailure,
            transfers0>>
gpuVars == <<mem, fault, running, done, launches>>
vars == <<cfgVars, argVars, gpuVars, execgraphTotal, pc, srcs, dsts,
          transfers, idx, addFailed, ret, cuda>>

get_num_devices == NumDevices

AllDone == done = Nodes(running)

\* The constructors: plan_valid is whether the plan is for this device
\* count and valid.
PlanValid(pl) == (get_num_devices = pl.num_gpus) /\ pl.valid

InitCalls(engines, planSet, runtimes, replaySet, configs) ==
    /\ engine \in engines
    /\ transfer_plan \in planSet
    /\ runtime \in runtimes
    /\ replays \in replaySet
    /\ cuda = NoObjects
    /\ plan_valid = PlanValid(transfer_plan)
    /\ table \in Tables
    /\ repertoire = configs[table]
    /\ execgraphTotal = NoExec
    /\ pc = "idle"
    /\ srcs = [d \in Devices |-> <<"A", d>>]
    /\ dsts = [d \in Devices |-> <<"B", d>>]
    /\ srcs_lens = [d \in Devices |-> 0]
    /\ dsts_lens = [d \in Devices |-> 0]
    /\ send_counts = table
    /\ srcs0 = srcs
    /\ dsts0 = dsts
    /\ exec0 = NoExec
    /\ afterFailure = FALSE
    /\ transfers0 = NoHandler
    /\ transfers = NoHandler
    /\ idx = 0
    /\ addFailed = FALSE
    /\ ret = "none"
    /\ mem = [buf \in Buffers |-> [k \in {} |-> Junk]]
    /\ fault = FALSE
    /\ running = NoGraph
    /\ done = {}
    /\ launches = 0

InitOf(engines, planSet, runtimes, replaySet) ==
    InitCalls(engines, planSet, runtimes, replaySet, [t \in Tables |-> CallConfigs(t)])

InitWith(planSet) == InitOf({"graph", "direct"}, planSet, {"reliable"}, {MaxLaunch})
Init == InitWith(Plans)
InitUnchecked == InitWith(UncheckedPlans)

\* The memory as the caller sets it up for a call: the source buffers hold
\* their own cells <<device, offset>> up to their declared length sl, the
\* target buffers hold nothing yet; sa and da are the cells allocated.
FreshMemory(b, sl, dl, sa, da) ==
    [buf \in Buffers |->
        IF buf[1] = b
        THEN [k \in 0 .. (sa - 1) |-> IF k < sl THEN <<buf[2], k>> ELSE Junk]
        ELSE [k \in 0 .. (da - 1) |-> Junk]]

\* The declared length of every buffer in the current call.
DeclaredLens ==
    [buf \in Buffers |->
        IF buf[1] = srcs0[0][1] THEN srcs_lens[0] ELSE dsts_lens[0]]

\* The caller waits for what it launched, fills its source buffers and
\* calls prepareExec / execAsync(srcs, srcs_lens, dsts, dsts_lens,
\* send_counts).
Begin(b, shape, sl, dl) ==
    /\ srcs' = [d \in 0 .. (VecLen(shape, "srcs") - 1) |-> <<b, d>>]
    /\ dsts' = [d \in 0 .. (VecLen(shape, "dsts") - 1) |-> <<OtherSet(b), d>>]
    /\ srcs0' = srcs'
    /\ dsts0' = dsts'
    /\ exec0' = execgraphTotal
    /\ afterFailure' = (ret = "false")
    /\ transfers0' = IF transfers # NoHandler THEN transfers ELSE transfers0
    /\ srcs_lens' = [d \in 0 .. (VecLen(shape, "srcs_lens") - 1) |-> sl]
    /\ dsts_lens' = [d \in 0 .. (VecLen(shape, "dsts_lens") - 1) |-> dl]
    /\ send_counts' = PassedTable(table, shape)
    /\ \E sa \in Allocations(sl, table), da \in Allocations(dl, table) :
          mem' = FreshMemory(b, sl, dl, sa, da)
    /\ transfers' = NoHandler
    /\ idx' = 0
    /\ addFailed' = FALSE
    /\ ret' = "none"
    /\ fault' = FALSE
    /\ running' = NoGraph
    /\ done' = {}
    /\ launches' = 0
    /\ pc' = "validate"
    /\ cuda' = [cuda EXCEPT !.op = "none", !.updateResult = "none"]
    /\ UNCHANGED <<cfgVars, execgraphTotal>>

Call ==
    /\ pc = "idle"
    /\ AllDone
    /\ \E c \in repertoire : Begin(c[1], c[2], c[3], c[4])

\* The argument checks without the one of dsts_lens.
InputsOkNoDstsLens ==
    /\ plan_valid
    /\ VSize(srcs) = get_num_devices
    /\ VSize(srcs_lens) = get_num_devices
    /\ VSize(dsts) = get_num_devices
    /\ VSize(send_counts) = get_num_devices
    /\ \A s \in DOMAIN send_counts : VSize(send_counts[s]) = get_num_devices

\* The argument checks at the head of prepareExec / execAsync.
InputsOk ==
    /\ plan_valid
    /\ VSize(srcs) = get_num_devices
    /\ VSize(srcs_lens) = get_num_devices
    /\ VSize(dsts) = get_num_devices
    /\ VSize(dsts_lens) = get_num_devices
    /\ VSize(send_counts) = get_num_devices
    /\ \A s \in DOMAIN send_counts : VSize(send_counts[s]) = get_num_devices

ReturnFalse ==
    /\ ret' = "false"
    /\ pc' = "idle"

\* std::swap(srcs, dsts) when the number of phases is even.
SwappedSrcs(num_phases, s, d) == IF num_phases % 2 = 0 THEN d ELSE s
SwappedDstsOdd(num_phases, s, d) == IF num_phases % 2 = 1 THEN s ELSE d
SwappedDsts(num_phases, s, d) == IF num_phases % 2 = 0 THEN s ELSE d

ReturnTrue ==
    /\ srcs' = SwappedSrcs(transfer_plan.num_steps, srcs, dsts)
    /\ dsts' = SwappedDsts(transfer_plan.num_steps, srcs, dsts)
    /\ ret' = "true"
    /\ pc' = "idle"

\* A handler the engine keeps from call to call and only empties: the
\* cursors stay where the earlier call left them.
NewHandlerKept(earlier, src_disp, trg_disp, sizes_, num_phases_, num_chunks_) ==
    IF earlier = NoHandler
    THEN TransferHandler(src_disp, trg_disp, sizes_, num_phases_, num_chunks_)
    ELSE [earlier EXCEPT !.sizes = sizes_,
                         !.phases = [p \in 0 .. (num_phases_ - 1) |-> <<>>]]

\* The handler of a call is a local of the call, constructed from the
\* call's tables; begin_transfer_setup does nothing.  Nothing of the handler
\* of an earlier call enters it.
NewHandler(earlier, src_disp, trg_disp, sizes_, num_phases_, num_chunks_) ==
    TransferHandler(src_disp, trg_disp, sizes_, num_phases_, num_chunks_)

\* A failed check returns false; otherwise the displacement tables are
\* computed and the handler is constructed.
Validate ==
    /\ pc = "validate"
    /\ IF ~InputsOk
       THEN /\ ReturnFalse
            /\ UNCHANGED <<transfers, idx>>
       ELSE /\ transfers' = NewHandler(transfers0,
                                       SrcDisplacements(send_counts),
                                       TrgDisplacements(send_counts),
                                       send_counts,
                                       transfer_plan.num_steps,
                                       transfer_plan.num_chunks)
            /\ idx' = 1
            /\ pc' = "add"
            /\ ret' = ret
    /\ UNCHANGED <<cfgVars, argVars, gpuVars, execgraphTotal, srcs, dsts,
                   addFailed, cuda>>

\* One round of the loop over transfer_plan.transfer_sequences(): the result
\* of add_transfer is not looked at.
AddTransferStep ==
    /\ pc = "add"
    /\ idx <= Len(transfer_plan.seqs)
    /\ LET r == AddTransfer(transfers, transfer_plan.seqs[idx].seq,
                            transfer_plan.seqs[idx].size)
       IN  /\ transfers' = r.h
           /\ addFailed' = (addFailed \/ ~r.ok)
    /\ idx' = idx + 1
    /\ UNCHANGED <<cfgVars, argVars, gpuVars, execgraphTotal, pc, srcs, dsts,
                   ret, cuda>>

\* all2all_graph_t::prepareExec after the loop: update_graph on the engine's
\* executable; the process ends in it when its last CUERR finds an error.
PrepareCapture ==
    /\ engine = "graph"
    /\ pc = "add"
    /\ idx > Len(transfer_plan.seqs)
    /\ \E updateSuccess \in UpdateResults(runtime, execgraphTotal,
                                           CaptureGraph(transfers, srcs, dsts)) :
          /\ execgraphTotal' = UpdateGraph(execgraphTotal, transfers, srcs, dsts,
                                           updateSuccess)
          /\ cuda' = UpdateObjects(cuda, execgraphTotal, updateSuccess)
          /\ pc' = IF CuerrEnds(runtime, execgraphTotal, updateSuccess)
                   THEN "aborted" ELSE "check"
    /\ UNCHANGED <<cfgVars, argVars, gpuVars, srcs, dsts, transfers, idx, addFailed,
                   ret>>

\* all2all_graph_t::prepareExec, the end: the size checks, the swap, the
\* result.
PrepareCheck ==
    /\ engine = "graph"
    /\ pc = "check"
    /\ IF ~SizesOk(transfers, dsts_lens)
       THEN ReturnFalse /\ UNCHANGED <<srcs, dsts>>
       ELSE ReturnTrue
    /\ UNCHANGED <<cfgVars, argVars, gpuVars, execgraphTotal, transfers, idx,
                   addFailed, cuda>>

\* all2all_t::execAsync after the loop: the size checks come first.
ExecCheck ==
    /\ engine = "direct"
    /\ pc = "add"
    /\ idx > Len(transfer_plan.seqs)
    /\ IF ~SizesOk(transfers, dsts_lens)
       THEN ReturnFalse
       ELSE pc' = "execute" /\ ret' = ret
    /\ UNCHANGED <<cfgVars, argVars, gpuVars, execgraphTotal, srcs, dsts,
                   transfers, idx, addFailed, cuda>>

\* The handler's own executable after the first update_graph of execute.
FirstPass == UpdateGraph(NoExec, transfers, srcs, dsts, TRUE)

\* transfer_handler_graph::execute: update_graph twice on the handler's own
\* executable, then the launch; when the last CUERR of the second
\* update_graph finds an error the process ends before the launch.
Execute ==
    /\ engine = "direct"
    /\ pc = "execute"
    /\ \E updateSuccess \in UpdateResults(runtime, FirstPass,
                                           CaptureGraph(transfers, srcs, dsts)) :
          LET updated == UpdateObjects(UpdateObjects(cuda, NoExec, TRUE),
                                       FirstPass, updateSuccess)
          IN  IF CuerrEnds(runtime, FirstPass, updateSuccess)
              THEN /\ cuda' = updated
                   /\ pc' = "aborted"
                   /\ UNCHANGED <<running, done, launches>>
              ELSE /\ running' = UpdateGraph(FirstPass, transfers, srcs, dsts,
                                             updateSuccess).graph
                   /\ cuda' = GraphLaunch(updated)
                   /\ done' = {}
                   /\ launches' = launches + 1
                   /\ pc' = "sync"
    /\ UNCHANGED <<cfgVars, argVars, mem, fault, execgraphTotal, srcs, dsts,
                   transfers, idx, addFailed, ret>>

\* all2all_t::execAsync, the end: sync_all_streams, the swap, the result;
\* the handler goes out of scope and its destructor destroys its executable.
SyncReturn ==
    /\ engine = "direct"
    /\ pc = "sync"
    /\ AllDone
    /\ ReturnTrue
    /\ cuda' = ExecDestroy(cuda)
    /\ UNCHANGED <<cfgVars, argVars, gpuVars, execgraphTotal, transfers, idx,
                   addFailed>>

\* all2all_graph_t::execAsync(stream): the launch of the cached executable.
ExecAsync ==
    /\ engine = "graph"
    /\ pc = "idle"
    /\ AllDone
    /\ execgraphTotal # NoExec
    /\ launches < replays
    /\ running' = execgraphTotal.graph
    /\ done' = {}
    /\ launches' = launches + 1
    /\ cuda' = GraphLaunch(cuda)
    /\ UNCHANGED <<cfgVars, argVars, mem, fault, execgraphTotal, pc, srcs,
                   dsts, transfers, idx, addFailed, ret>>

\* all2all_graph_t::execAsync(stream) with no executable: the assertion
\* fails.
ExecAsyncAssert ==
    /\ engine = "graph"
    /\ pc = "idle"
    /\ AllDone
    /\ execgraphTotal = NoExec
    /\ pc' = "aborted"
    /\ UNCHANGED <<cfgVars, argVars, gpuVars, execgraphTotal, srcs, dsts,
                   transfers, idx, addFailed, ret, cuda>>

\* all2all_graph_t::~all2all_graph_t, once the caller has waited for what it
\* launched: the executable, if there is one, is destroyed.
Teardown ==
    /\ engine = "graph"
    /\ pc = "idle"
    /\ AllDone
    /\ pc' = "destroyed"
    /\ cuda' = IF execgraphTotal # NoExec THEN ExecDestroy(cuda) ELSE cuda
    /\ UNCHANGED <<cfgVars, argVars, gpuVars, execgraphTotal, srcs, dsts,
                   transfers, idx, addFailed, ret>>

Earlier(m, n) == m[1] < n[1] \/ (m[1] = n[1] /\ m[2] < n[2])

\* What keeps copy m before copy n in a launched graph: the captured
\* dependencies.
Ordered(graph, m, n) == Before(graph, m[1], m[2], n[1], n[2])

\* Two copies race when neither is ordered before the other and one writes
\* cells the other reads or writes.
Overlap(b1, p1, l1, b2, p2, l2) ==
    b1 = b2 /\ l1 > 0 /\ l2 > 0 /\ p1 < p2 + l2 /\ p2 < p1 + l1
Races(graph, m, n) ==
    LET a == graph[m[1]][m[2]]
        b == graph[n[1]][n[2]]
    IN  /\ m # n
        /\ ~Ordered(graph, m, n)
        /\ ~Ordered(graph, n, m)
        /\ \/ Overlap(a.to, a.to_pos, a.len, b.to, b.to_pos, b.len)
           \/ Overlap(a.to, a.to_pos, a.len, b.from, b.from_pos, b.len)
           \/ Overlap(a.from, a.from_pos, a.len, b.to, b.to_pos, b.len)

\* A copy of the launched graph may run once everything ordered before it
\* has completed.
Ready(n, pending) == \A m \in pending : ~Ordered(running, m, n)

CopyStep(n) ==
    /\ mem' = ApplyCopy(mem, running[n[1]][n[2]])
    /\ fault' = (fault \/ OutOfBounds(DeclaredLens, running[n[1]][n[2]]))
    /\ done' = done \cup {n}
    /\ UNCHANGED <<cfgVars, argVars, running, launches, execgraphTotal, pc,
                   srcs, dsts, transfers, idx, addFailed, ret, cuda>>

\* A copy that may run and races with no copy still to run: it commutes
\* with every copy that can run before it.
Quiet(n, pending) ==
    /\ Ready(n, pending)
    /\ \A m \in pending : ~Races(running, m, n)

\* The copies whose completion is explored.  While some copy that may run
\* is quiet, running the one captured first loses no outcome; when every
\* copy that may run races with a copy still to run, each of them is taken.
\* Every memory an interleaving of the launched graph can leave is reached.
Taken(pending) ==
    LET quiet == {q \in pending : Quiet(q, pending)}
    IN  IF quiet = {} THEN {n \in pending : Ready(n, pending)}
        ELSE {n \in quiet : \A q \in quiet : q = n \/ Earlier(n, q)}

Copy ==
    LET pending == Nodes(running) \ done
    IN  \E n \in Taken(pending) : CopyStep(n)

Next ==
    \/ Call
    \/ Validate
    \/ AddTransferStep
    \/ PrepareCapture
    \/ PrepareCheck
    \/ ExecCheck
    \/ Execute
    \/ SyncReturn
    \/ ExecAsync
    \/ ExecAsyncAssert
    \/ Teardown
    \/ Copy

Spec == Init /\ [][Next]_vars
SpecUnchecked == InitUnchecked /\ [][Next]_vars

\* The engines with a caller whose source buffers may be shorter than its
\* target buffers.
InitSrcLens ==
    InitCalls({"graph", "direct"}, {DefaultPlan, HubPlan, ChainPlan}, {"reliable"},
              {MaxLaunch}, [t \in Tables |-> SrcLenConfigs(t)])
SpecSrcLens == InitSrcLens /\ [][Next]_vars

\* The engines with streams that are scheduled fairly: a copy that may run
\* does run.
InitFair ==
    InitCalls({"graph", "direct"}, ValidatedPlans, {"reliable"}, {MaxLaunch},
              [t \in Tables |-> RoomyConfigs(t)])
SpecFair == InitFair /\ [][Next]_vars /\ WF_vars(Copy)

\* The engines with a runtime whose cudaGraphExecUpdate may fail although
\* the topology is the same.
InitRuntime ==
    InitOf({"graph", "direct"}, {DefaultPlan, HubPlan}, {"flaky", "lenient"}, {MaxLaunch})
SpecRuntime == InitRuntime /\ [][Next]_vars

\* The engines with a caller that launches a prepared executable twice.
InitReplay ==
    InitOf({"graph", "direct"}, {DefaultPlan, HubPlan, ChainPlan}, {"reliable"},
           {MaxLaunch + 1})
SpecReplay == InitReplay /\ [][Next]_vars

\* ------------------------------------------------------------ properties
\* The displacements of the workload, under the names the specification uses.
SrcDisp(s, d) == SumTo(table[s], d)
TrgDisp(s, d) == SumTo([x \in Devices |-> table[x][d]], s)

\* A call has returned true and everything it (or the launch after it)
\* issued has completed.
Completed ==
    /\ pc = "idle"
    /\ ret = "true"
    /\ launches = 1
    /\ running # NoGraph
    /\ AllDone

\* The buffers have room for everything that is sent.
Roomy ==
    \A d \in Devices : srcs_lens[d] > GrandTotal(table) /\ dsts_lens[d] > GrandTotal(table)

\* C1: end-to-end correctness.  For a plan that routes every pair in full
\* and buffers of sufficient length (roomy ones, or any that no copy left),
\* once a call has returned true and its copies have completed, the buffer
\* the caller's dsts[d] names holds at trg_displacements[s][d] + k the
\* element srcs[s] held at src_displacements[s][d] + k, for every pair
\* (s, d) and every k < sizes[s][d].
C1_EndToEnd ==
    (Completed /\ RoutesInFull(transfer_plan) /\ (Roomy \/ ~fault)) =>
        \A s, d \in Devices : \A k \in 0 .. (table[s][d] - 1) :
            ReadCell(mem, dsts[d], TrgDisp(s, d) + k) = <<s, SrcDisp(s, d) + k>>

C1_Witness ==
    /\ Completed
    /\ Roomy
    /\ engine = "graph"
    /\ transfer_plan.num_steps = 3
    /\ \E s, d \in Devices : s # d /\ table[s][d] > 1

\* The graph a returned call has captured.
CapturedGraph == IF engine = "graph" THEN execgraphTotal.graph ELSE running

\* C2: phase-count parity.  After a call that returned true the caller's
\* srcs and dsts are exchanged exactly when the number of phases is even;
\* phase p writes to the original dsts when p is even and to the original
\* srcs when p is odd, so dsts names the buffers the last phase writes.
C2_PhaseParity ==
    (pc = "idle" /\ ret = "true") =>
        /\ IF transfer_plan.num_steps % 2 = 0
           THEN srcs = dsts0 /\ dsts = srcs0
           ELSE srcs = srcs0 /\ dsts = dsts0
        /\ \A n \in Nodes(CapturedGraph) :
              LET c == CapturedGraph[n[1]][n[2]]
              IN  /\ c.to = (IF n[1] % 2 = 0 THEN dsts0 ELSE srcs0)[c.trg_gpu]
                  /\ (n[1] = transfer_plan.num_steps - 1) => (c.to = dsts[c.trg_gpu])

C2_Witness ==
    /\ pc = "idle"
    /\ ret = "true"
    /\ transfer_plan.num_steps = 2
    /\ srcs = dsts0
    /\ dsts = srcs0
    /\ srcs0 # dsts0

\* The descriptors of phase 0 that belong to pair (s, d): without a
\* rejected hop sequence the i-th descriptor comes from the i-th sequence.
PairCalls(s, d) ==
    {i \in 1 .. Len(transfers.phases[0]) :
        /\ Front(transfer_plan.seqs[i].seq) = s
        /\ Back(transfer_plan.seqs[i].seq) = d}
SrcRange(i) ==
    transfers.phases[0][i].src_pos ..
        (transfers.phases[0][i].src_pos + transfers.phases[0][i].len - 1)
AllProcessed == transfers # NoHandler /\ idx > Len(transfer_plan.seqs)

\* C3: non-overlap.  The source ranges claimed by the add_transfer calls of
\* a pair are pairwise disjoint, and once all hop sequences are processed
\* they tile [src_displacements[s][d], src_displacements[s][d] + sizes[s][d]).
C3_NonOverlap ==
    (transfers # NoHandler) =>
        \A s, d \in Devices :
            /\ \A i, j \in PairCalls(s, d) : i # j => SrcRange(i) \cap SrcRange(j) = {}
            /\ AllProcessed =>
                  UNION {SrcRange(i) : i \in PairCalls(s, d)}
                      = SrcDisp(s, d) .. (SrcDisp(s, d) + table[s][d] - 1)

C3_Witness ==
    /\ AllProcessed
    /\ \E s, d \in Devices : \E i, j \in PairCalls(s, d) :
          i # j /\ SrcRange(i) # {} /\ SrcRange(j) # {}

RECURSIVE SumLenTo(_, _, _)
\* The lengths of the first n descriptors of list that target device d.
SumLenTo(list, n, d) ==
    IF n = 0 THEN 0
    ELSE SumLenTo(list, n - 1, d) + (IF list[n].trg_gpu = d THEN list[n].len ELSE 0)
LastPhase == transfers.phases[transfers.num_phases - 1]

\* C4: flow conservation.  Once all hop sequences are processed, the
\* lengths of the last-phase descriptors that target device d add up to the
\* sum over all sources s of sizes[s][d].
C4_FlowConservation ==
    AllProcessed =>
        \A d \in Devices : SumLenTo(LastPhase, Len(LastPhase), d) = ColSum(table, d)

C4_Witness ==
    /\ AllProcessed
    /\ transfers.num_phases = 2
    /\ \E d \in Devices : ColSum(table, d) > 2

\* The call add_transfer(seq, size) the loop is about to make, for a pair
\* whose nominal length exceeds what is left of its region.
CurSeq == transfer_plan.seqs[idx].seq
CurNominal ==
    ((table[Front(CurSeq)][Back(CurSeq)] + transfer_plan.num_chunks - 1)
        \div transfer_plan.num_chunks) * transfer_plan.seqs[idx].size
CurRemaining ==
    SrcDisp(Front(CurSeq), Back(CurSeq)) + table[Front(CurSeq)][Back(CurSeq)]
        - transfers.src_offsets[Front(CurSeq)][Back(CurSeq)]
ClampingCall ==
    /\ pc = "add"
    /\ idx <= Len(transfer_plan.seqs)
    /\ Len(CurSeq) = transfer_plan.num_steps + 1
    /\ CurNominal > CurRemaining

\* C5: clamping.  A call whose nominal length exceeds the remaining capacity
\* of its pair returns true and emits, in every phase, one descriptor of
\* exactly the remaining capacity (possibly 0); the source cursor never
\* exceeds src_displacements[s][d] + sizes[s][d].
C5_Clamping ==
    /\ [][(ClampingCall /\ idx' = idx + 1) =>
            /\ addFailed' = addFailed
            /\ \A p \in DOMAIN transfers.phases :
                  /\ Len(transfers'.phases[p]) = Len(transfers.phases[p]) + 1
                  /\ transfers'.phases[p][Len(transfers'.phases[p])].len = CurRemaining]_vars
    /\ []((transfers # NoHandler) =>
            \A s, d \in Devices :
                transfers.src_offsets[s][d] <= SrcDisp(s, d) + table[s][d])

\* A clamped call has been made: a descriptor shorter than the nominal
\* length of its sequence, and not empty.
C5_Witness ==
    /\ transfers # NoHandler
    /\ \E i \in 1 .. Len(transfers.phases[0]) :
          LET q == transfer_plan.seqs[i]
              t == transfers.phases[0][i]
          IN  /\ t.len > 0
              /\ t.len < SDIV(table[Front(q.seq)][Back(q.seq)], transfer_plan.num_chunks)
                            * q.size

\* ------------------------------------------------ error handling (C6-C10)
\* A call has been made and has returned.
Returned == pc = "idle" /\ ret # "none"

\* A call has been made since the engine was constructed.
CallMade == pc \notin {"idle", "aborted", "destroyed"} \/ ret # "none"

\* The arguments of the current call, or the engine's plan, are not what a
\* call requires: the plan is not a valid plan for N devices, one of the four
\* vectors does not have N entries, or the table is not N x N.
BadInput ==
    \/ ~transfer_plan.valid
    \/ transfer_plan.num_gpus # NumDevices
    \/ Cardinality(DOMAIN srcs0) # NumDevices
    \/ Cardinality(DOMAIN srcs_lens) # NumDevices
    \/ Cardinality(DOMAIN dsts0) # NumDevices
    \/ Cardinality(DOMAIN dsts_lens) # NumDevices
    \/ Cardinality(DOMAIN send_counts) # NumDevices
    \/ \E s \in DOMAIN send_counts : Cardinality(DOMAIN send_counts[s]) # NumDevices

\* The current call has issued no copy and has left the engine's executable
\* and the caller's vectors as they were.
NothingIssued ==
    /\ execgraphTotal = exec0
    /\ (launches = 0 => running = NoGraph)
    /\ (engine = "direct" => running = NoGraph)
    /\ srcs = srcs0
    /\ dsts = dsts0

\* C6: input validation.  A call whose plan is not valid for the device
\* count, or one of whose vectors does not have N entries, or whose table is
\* not N x N, returns false; it generates no descriptor, captures no graph,
\* issues no copy and does not swap srcs and dsts.
C6_InputValidation ==
    (CallMade /\ BadInput) =>
        /\ pc \in {"validate", "idle", "aborted", "destroyed"}
        /\ (pc # "validate" => ret = "false")
        /\ transfers = NoHandler
        /\ NothingIssued

\* A call with a malformed table has returned false on an engine that holds
\* the executable of an earlier call.
C6_Witness ==
    /\ Returned
    /\ ret = "false"
    /\ exec0 # NoExec
    /\ \E s \in DOMAIN send_counts : Cardinality(DOMAIN send_counts[s]) # NumDevices

\* The per-device write cursors once the bookkeeping is over: the
\* intermediate ones of phase p < P-1 and the final one (the last row of
\* trg_offsets).
IntermediateCursor(p, dev) == transfers.phases_offsets[p][dev]
FinalCursor(dev) == transfers.trg_offsets[NumDevices][dev]
Overrun ==
    /\ AllProcessed
    /\ \E dev \in Devices :
          \/ \E p \in 0 .. (transfer_plan.num_steps - 2) :
                IntermediateCursor(p, dev) > dsts_lens[dev]
          \/ FinalCursor(dev) > dsts_lens[dev]

\* C7: capacity post-condition.  When, after all hop sequences are
\* processed, an intermediate or the final write cursor of a device exceeds
\* dsts_lens of that device, the call does not return true, and until it has
\* returned false no copy is issued and nothing is captured into, or changes,
\* the executable a later launch replays.
C7_CapacityReportedFirst ==
    Overrun =>
        /\ ret # "true"
        /\ pc # "execute"
        /\ NothingIssued

\* prepareExec has returned false for an overrun and the engine's executable
\* is no longer the one it held when the call began.
C7_Witness ==
    /\ Returned
    /\ ret = "false"
    /\ Overrun
    /\ engine = "graph"
    /\ execgraphTotal # exec0

\* C8 as stated: after a call that did not fail, every intermediate cursor
\* and the final cursor of a device equals dsts_lens of that device.
C8_EqualityHook ==
    (Returned /\ AllProcessed /\ ret = "true") =>
        \A dev \in Devices :
            /\ \A p \in 0 .. (transfer_plan.num_steps - 2) :
                  IntermediateCursor(p, dev) = dsts_lens[dev]
            /\ FinalCursor(dev) = dsts_lens[dev]

\* C8: validation hook.  After all hop sequences are processed the call
\* fails exactly when an intermediate cursor or the final cursor of a device
\* exceeds dsts_lens of that device; cursors below dsts_lens are accepted.
C8_NoOverrunHook ==
    (Returned /\ AllProcessed) => (ret = "false" <=> Overrun)

\* A call has returned true although an intermediate cursor and a final
\* cursor are below dsts_lens.
C8_Witness ==
    /\ Returned
    /\ AllProcessed
    /\ ret = "true"
    /\ transfer_plan.num_steps > 1
    /\ \E dev \in Devices : IntermediateCursor(0, dev) < dsts_lens[dev]
    /\ \E dev \in Devices : FinalCursor(dev) < dsts_lens[dev]

\* What a freshly constructed engine with the same plan makes of the
\* current call's arguments: the handler after the loop over the plan, the
\* graph captured from it, and the memory once the graph has run.
RECURSIVE AddAll(_, _, _)
AddAll(h, sq, n) ==
    IF n = 0 THEN h
    ELSE AddTransfer(AddAll(h, sq, n - 1), sq[n].seq, sq[n].size).h
FreshTransfers ==
    AddAll(TransferHandler(SrcDisplacements(send_counts), TrgDisplacements(send_counts),
                           send_counts, transfer_plan.num_steps,
                           transfer_plan.num_chunks),
           transfer_plan.seqs, Len(transfer_plan.seqs))
FreshGraph(h) == CaptureGraph(h, srcs0, dsts0)
RECURSIVE RunList(_, _, _)
RunList(m, list, n) ==
    IF n = 0 THEN m ELSE ApplyCopy(RunList(m, list, n - 1), list[n])
RECURSIVE RunGraph(_, _, _)
RunGraph(m, graph, p) ==
    IF p = 0 THEN m
    ELSE RunList(RunGraph(m, graph, p - 1), graph[p - 1], Len(graph[p - 1]))
FreshResult(graph) ==
    RunGraph(FreshMemory(srcs0[0][1], srcs_lens[0], dsts_lens[0],
                         Cardinality(DOMAIN mem[srcs0[0]]),
                         Cardinality(DOMAIN mem[dsts0[0]])),
             graph, transfer_plan.num_steps)

\* The target buffers hold what handler h sends to them and through them.
FitsBuffers(h) ==
    \A dev \in Devices :
        /\ \A p \in 0 .. (transfer_plan.num_steps - 2) :
              h.phases_offsets[p][dev] <= dsts_lens[dev]
        /\ h.trg_offsets[NumDevices][dev] <= dsts_lens[dev]

\* The arguments are well-formed and the target buffers are large enough.
ValidInputs == ~BadInput /\ FitsBuffers(FreshTransfers)

\* C9: a configuration error aborts only the current call.  A call with
\* valid inputs that follows a call that returned false returns true, and
\* its descriptors, its captured graph and the final buffer contents are
\* those of the same call on a fresh engine.
C9_AbortsOnlyCurrentCall ==
    (afterFailure /\ Returned /\ ~BadInput) =>
        (FitsBuffers(FreshTransfers) =>
            /\ ret = "true"
            /\ transfers = FreshTransfers
            /\ CapturedGraph = FreshGraph(FreshTransfers)
            /\ (launches = 1 /\ AllDone) => (mem = FreshResult(CapturedGraph)))

\* After a failed call that left an executable behind, a valid call has
\* returned and its copies have completed.
C9_Witness ==
    /\ afterFailure
    /\ Completed
    /\ ValidInputs
    /\ engine = "graph"
    /\ exec0 # NoExec
    /\ exec0.graph # execgraphTotal.graph
    /\ \E s, d \in Devices : s # d /\ table[s][d] > 0

\* C10: hop-sequence length mismatch.  When a hop sequence fed to the
\* bookkeeper during a call does not have P + 1 entries, the call returns
\* false and neither issues nor captures a copy.
C10_HopLengthReported ==
    addFailed =>
        /\ ret # "true"
        /\ pc # "execute"
        /\ NothingIssued

\* A call has returned true although add_transfer rejected one of the hop
\* sequences.
C10_Witness ==
    /\ Returned
    /\ addFailed
    /\ ret = "true"

\* -------------------------------------------------- ordering (C11, C12)
\* A graph has just been captured: prepareExec stands before its size
\* checks, or execute has launched and no copy has run yet.
JustCaptured ==
    \/ engine = "graph" /\ pc = "check"
    \/ engine = "direct" /\ pc = "sync" /\ done = {}

\* C11: graph phase barrier.  In the captured graph every copy of a later
\* phase is ordered after every copy of an earlier phase by the stream and
\* event dependencies of the capture alone, whichever descriptors share a
\* pair's stream and whichever pairs have no descriptor in a phase; no copy
\* is ordered before a copy of its own phase on another stream; and a
\* launched graph runs accordingly: while a copy of a phase is pending no
\* copy of a later phase has completed.
C11_PhaseBarrier ==
    /\ JustCaptured =>
          LET order == CaptureOrder(CapturedGraph)
          IN  \A m, n \in Nodes(CapturedGraph) :
                  /\ (m[1] < n[1]) => (<<m, n>> \in order)
                  /\ (<<m, n>> \in order) <=> Before(CapturedGraph, m[1], m[2], n[1], n[2])
    /\ engine \in {"graph", "direct"} =>
          \A m \in Nodes(running) \ done : \A n \in done : n[1] <= m[1]

\* A two-phase graph routed through a hub is running: its first phase uses
\* the streams into device 0 only, a copy of that phase is pending while
\* another has completed.
C11_Witness ==
    /\ engine = "graph"
    /\ transfer_plan.num_steps = 2
    /\ \E m \in Nodes(running) \ done : \E n \in done : m[1] = 0 /\ n[1] = 0
    /\ \E pr \in Pairs : \A n \in Nodes(running) :
          n[1] = 0 => <<running[n[1]][n[2]].src_gpu, running[n[1]][n[2]].trg_gpu>> # pr

\* C12: direct executor ordering.  all2all_t issues the phases in increasing
\* order, phase p reading the caller's original srcs and writing its dsts
\* when p is even and the other way round when p is odd; no copy of a phase
\* is issued while a copy of an earlier phase has not completed; and the
\* call waits for the streams between phases only, never after the last
\* phase has been issued.
C12_DirectOrdering ==
    (engine = "direct" /\ running # NoGraph) =>
        /\ \A n \in Nodes(running) :
              LET c == running[n[1]][n[2]]
                  t == transfers.phases[n[1]][n[2]]
              IN  /\ c.from = (IF n[1] % 2 = 0 THEN srcs0 ELSE dsts0)[t.src_gpu]
                  /\ c.to = (IF n[1] % 2 = 0 THEN dsts0 ELSE srcs0)[t.trg_gpu]
                  /\ c.from_pos = t.src_pos /\ c.to_pos = t.trg_pos /\ c.len = t.len
        /\ \A m \in Nodes(running) \ done : \A n \in Nodes(running) : n[1] <= m[1]
        /\ (pc = "sync") => (DOMAIN running # 0 .. (transfer_plan.num_steps - 1))

\* What all2all_t does keep: the copies alternate between the two buffer
\* sets, no copy of a phase completes while a copy of an earlier phase is
\* pending, and a call that returned true has waited for every copy.
DirectGraphOrdering ==
    (engine = "direct" /\ running # NoGraph) =>
        /\ DOMAIN running = 0 .. (transfer_plan.num_steps - 1)
        /\ \A n \in Nodes(running) :
              LET c == running[n[1]][n[2]]
                  t == transfers.phases[n[1]][n[2]]
              IN  /\ c.from = (IF n[1] % 2 = 0 THEN srcs0 ELSE dsts0)[t.src_gpu]
                  /\ c.to = (IF n[1] % 2 = 0 THEN dsts0 ELSE srcs0)[t.trg_gpu]
        /\ \A m \in Nodes(running) \ done : \A n \in done : n[1] <= m[1]
        /\ (Returned /\ ret = "true") => AllDone

\* A call of three phases stands at its only wait, after the launch of all
\* its phases: a copy of the second phase has been issued while a copy of
\* the first has not completed.
C12_Witness ==
    /\ engine = "direct"
    /\ pc = "sync"
    /\ transfer_plan.num_steps = 3
    /\ DOMAIN running = 0 .. 2
    /\ \E m \in Nodes(running) \ done : m[1] = 0 /\ running[m[1]][m[2]].len > 0
    /\ \E n \in Nodes(running) : n[1] = 1 /\ running[n[1]][n[2]].len > 0

\* ------------------------------------------ the executable (C13-C16, C19)
\* The process has ended in update_graph, at the CUERR that found the error
\* of a failed update.
EndedInUpdate == pc = "aborted" /\ cuda.updateResult = "error"

\* C13: update-or-rebuild.  When update_graph finds an executable and the
\* update of it does not report success, the old executable is destroyed
\* and a fresh one is instantiated from the new graph, whether update_graph
\* then returns or the process ends in it; whatever the update reports,
\* when update_graph has returned the executable represents the graph just
\* captured.
C13_UpdateOrRebuild ==
    /\ JustCaptured =>
          /\ CapturedGraph = CaptureGraph(transfers, srcs, dsts)
          /\ cuda.live = 1
          /\ ~cuda.misuse
          /\ (cuda.updateResult = "error") => (cuda.op = "rebuilt" /\ cuda.passes = 1)
          /\ (cuda.updateResult = "success") => (cuda.op = "updated" /\ cuda.passes = 2)
    /\ EndedInUpdate =>
          /\ cuda.op = "rebuilt"
          /\ cuda.passes = 1
          /\ cuda.live = 1
          /\ ~cuda.misuse
          /\ (engine = "graph") =>
                 (execgraphTotal.graph = CaptureGraph(transfers, srcs, dsts))

\* prepareExec found the executable of an earlier call with other buffers,
\* its update failed, and update_graph has returned.
C13_Witness ==
    /\ engine = "graph"
    /\ pc = "check"
    /\ cuda.updateResult = "error"
    /\ exec0 # NoExec
    /\ exec0.graph # execgraphTotal.graph

\* C14: graph reuse.  A prepareExec that finds the executable of an earlier
\* prepareExec of the same engine, called with other buffer pointers,
\* updates that executable in place, without destroying or instantiating
\* one, and the executable then copies from and to the new pointers.
C14_GraphReuse ==
    (engine = "graph" /\ Returned /\ ret = "true" /\ exec0 # NoExec) =>
        /\ cuda.op = "updated"
        /\ cuda.live = 1
        /\ ~cuda.misuse
        /\ execgraphTotal.graph = CaptureGraph(transfers, srcs0, dsts0)
        /\ \A n \in Nodes(execgraphTotal.graph) :
               {execgraphTotal.graph[n[1]][n[2]].from, execgraphTotal.graph[n[1]][n[2]].to}
                   \subseteq {srcs0[d] : d \in Devices} \cup {dsts0[d] : d \in Devices}

\* A second prepareExec with other buffers returned true, its executable
\* differs from the one it found, and the launch has run to completion.
C14_Witness ==
    /\ engine = "graph"
    /\ Returned
    /\ ret = "true"
    /\ exec0 # NoExec
    /\ exec0.graph # execgraphTotal.graph
    /\ cuda.op = "updated"
    /\ launches = 1
    /\ AllDone

\* C15: warm-up double pass.  An executable is launched for the first time
\* only after update_graph has run twice on it, the first run instantiating
\* it and the second updating it.
C15_WarmUpDoublePass ==
    (launches > 0) => cuda.passes = 2

\* The first prepareExec of an all2all_graph_t followed by execAsync: the
\* executable is launched after one run of update_graph.
C15_Witness ==
    /\ engine = "graph"
    /\ exec0 = NoExec
    /\ ret = "true"
    /\ launches = 1
    /\ cuda.passes = 1
    /\ AllDone

\* The executable of a call that returned true has been launched n times
\* and every copy of the last launch has completed.
Launched(n) ==
    /\ engine = "graph"
    /\ pc = "idle"
    /\ ret = "true"
    /\ launches = n
    /\ running # NoGraph
    /\ AllDone

\* The buffers dsts names hold what one launch on the caller's data leaves
\* in them.
ResultOfOneLaunch ==
    \A d \in Devices : mem[dsts[d]] = FreshResult(CapturedGraph)[dsts[d]]

\* C16: idempotent replay.  A second launch of the prepared executable,
\* with no buffer rewritten by the caller in between, leaves in the
\* destination buffers what the first launch left there, for every number
\* of phases.
C16_IdempotentReplay ==
    (Launched(2) /\ Roomy) => ResultOfOneLaunch

\* The first launch leaves the result of one launch, and so does the second
\* launch of a single-phase plan.
C16_SinglePhaseReplay ==
    /\ (Launched(1) /\ Roomy) => ResultOfOneLaunch
    /\ (Launched(2) /\ Roomy /\ transfer_plan.num_steps = 1) => ResultOfOneLaunch

\* A two-phase executable has been launched twice and the destination
\* buffers do not hold the result of the first launch.
C16_Witness ==
    /\ Launched(2)
    /\ Roomy
    /\ transfer_plan.num_steps = 2
    /\ ~ResultOfOneLaunch

\* ------------------------------------------- layout and lengths (C17-C20)
\* The handler of the current call exists.
HandlerBuilt == pc \in {"add", "check", "execute", "sync"}

\* C17: displacement tables.  src_displacements[s][0] = 0 and
\* src_displacements[s][d+1] = src_displacements[s][d] + sizes[s][d], so
\* that src_displacements[s][N] is what device s sends; the target
\* displacements the handler's target cursors start from are 0 in row 0
\* and trg[s+1][d] = trg[s][d] + sizes[s][d], so that row N holds what each
\* device receives; the send-count table is the caller's, unmodified.
C17_DisplacementTables ==
    HandlerBuilt =>
        /\ send_counts = table
        /\ transfers.sizes = table
        /\ \A s \in Devices :
              /\ transfers.src_displacements[s][0] = 0
              /\ \A d \in Devices :
                    transfers.src_displacements[s][d + 1]
                        = transfers.src_displacements[s][d] + table[s][d]
              /\ transfers.src_displacements[s][NumDevices] = RowSum(table, s)
        /\ (pc = "add" /\ idx = 1) =>
              \A d \in Devices :
                  /\ transfers.trg_offsets[0][d] = 0
                  /\ \A s \in Devices :
                        transfers.trg_offsets[s + 1][d]
                            = transfers.trg_offsets[s][d] + table[s][d]
                  /\ transfers.trg_offsets[NumDevices][d] = ColSum(table, d)

\* The handler has just been constructed for a table with two devices that
\* send and two that receive from more than one device.
C17_Witness ==
    /\ pc = "add"
    /\ idx = 1
    /\ \E s \in Devices :
          /\ transfers.src_displacements[s][1] > 0
          /\ transfers.src_displacements[s][NumDevices] > transfers.src_displacements[s][1]
    /\ \E d \in Devices :
          /\ transfers.trg_offsets[1][d] > 0
          /\ transfers.trg_offsets[NumDevices][d] > transfers.trg_offsets[1][d]

\* The plan has one phase and routes every pair with one transfer of all
\* the plan's chunks.
SinglePhaseFull(pl) ==
    /\ pl.num_steps = 1
    /\ \A i \in 1 .. Len(pl.seqs) :
          Len(pl.seqs[i].seq) = 2 /\ pl.seqs[i].size = pl.num_chunks
    /\ \A s, d \in Devices :
          Cardinality({i \in 1 .. Len(pl.seqs) : pl.seqs[i].seq = <<s, d>>}) = 1

\* The table of Scenario A, devices beyond the first two sending nothing.
ScenarioA ==
    [s \in Devices |-> [d \in Devices |->
        IF s < 2 /\ d < 2 THEN <<<<10, 5>>, <<3, 7>>>>[s + 1][d + 1] ELSE 0]]
ScenarioAPhase ==
    AddAll(TransferHandler(SrcDisplacements(ScenarioA), TrgDisplacements(ScenarioA),
                           ScenarioA, 1, 1),
           DefaultPlan.seqs, Len(DefaultPlan.seqs)).phases[0]

\* C18: single-phase layout.  With one phase and every pair routed by one
\* full-size transfer, the phase-0 descriptor of pair (s, d) is (s, sum of
\* sizes[s][d'] over d' < d, d, sum of sizes[s'][d] over s' < s,
\* sizes[s][d]); for sizes = [[10,5],[3,7]] device 0 receives 10 elements at
\* offset 0 and 3 at offset 10, device 1 receives 5 at 0 and 7 at 5.
C18_SinglePhaseLayout ==
    (AllProcessed /\ HandlerBuilt /\ SinglePhaseFull(transfer_plan)) =>
        /\ Len(transfers.phases[0]) = Len(transfer_plan.seqs)
        /\ \A i \in 1 .. Len(transfer_plan.seqs) :
              LET s == Front(transfer_plan.seqs[i].seq)
                  d == Back(transfer_plan.seqs[i].seq)
              IN  transfers.phases[0][i] =
                      [src_gpu |-> s,
                       src_pos |-> SumTo(table[s], d),
                       trg_gpu |-> d,
                       trg_pos |-> SumTo([q \in Devices |-> table[q][d]], s),
                       len     |-> table[s][d]]
        /\ \A i \in 1 .. Len(ScenarioAPhase) :
              LET t == ScenarioAPhase[i]
              IN  /\ (t.src_gpu = 0 /\ t.trg_gpu = 0) => (t.len = 10 /\ t.trg_pos = 0)
                  /\ (t.src_gpu = 1 /\ t.trg_gpu = 0) => (t.len = 3 /\ t.trg_pos = 10)
                  /\ (t.src_gpu = 0 /\ t.trg_gpu = 1) => (t.len = 5 /\ t.trg_pos = 0)
                  /\ (t.src_gpu = 1 /\ t.trg_gpu = 1) => (t.len = 7 /\ t.trg_pos = 5)

\* The loop over a single-phase plan with two chunks has ended and a
\* descriptor lies at non-zero positions of both buffers.
C18_Witness ==
    /\ AllProcessed
    /\ HandlerBuilt
    /\ SinglePhaseFull(transfer_plan)
    /\ transfer_plan.num_chunks = 2
    /\ \E i \in 1 .. Len(transfers.phases[0]) :
          /\ transfers.phases[0][i].src_pos > 0
          /\ transfers.phases[0][i].trg_pos > 0
          /\ transfers.phases[0][i].len > 1

\* C19: executable lifecycle.  Every graph a capture produced is destroyed
\* before update_graph returns (or the process ends in it); at most one
\* executable is alive at any time, and one is alive exactly while the
\* engine holds one; no executable or graph is updated, launched or
\* destroyed when it is not alive; after teardown no executable is alive.
\* A process that ended in update_graph makes no further call and tears
\* nothing down.
C19_ExecutableLifecycle ==
    /\ cuda.graphs = 0
    /\ cuda.live <= 1
    /\ ~cuda.misuse
    /\ (engine = "graph" /\ pc # "destroyed") =>
           (cuda.live = IF execgraphTotal = NoExec THEN 0 ELSE 1)
    /\ (engine = "direct" /\ ~EndedInUpdate) =>
           (cuda.live = IF pc = "sync" THEN 1 ELSE 0)
    /\ (pc = "destroyed") => (cuda.live = 0)

\* The engine has been torn down after a call whose update failed and
\* rebuilt the executable.
C19_Witness ==
    /\ pc = "destroyed"
    /\ cuda.op = "rebuilt"
    /\ execgraphTotal # NoExec
    /\ running # NoGraph
    /\ cuda.live = 0

\* The rounded-up quotient: the least q with q * c >= x.
CeilQuotient(x, c) == CHOOSE q \in 0 .. x : q * c >= x /\ (q = 0 \/ (q - 1) * c < x)

\* The call add_transfer(seq, size) the loop is about to make is not rejected.
AcceptedCall ==
    /\ pc = "add"
    /\ idx <= Len(transfer_plan.seqs)
    /\ Len(CurSeq) = transfer_plan.num_steps + 1
CurCeilLength ==
    CeilQuotient(table[Front(CurSeq)][Back(CurSeq)], transfer_plan.num_chunks)
        * transfer_plan.seqs[idx].size

\* C20: transfer length resolution.  Every descriptor a call add_transfer
\* emits has length ceil(sizes[s][d] / C) * relative_size when that does not
\* exceed the remaining capacity src_displacements[s][d] + sizes[s][d] -
\* src_offsets[s][d], and the remaining capacity otherwise.
C20_TransferLength ==
    [][(AcceptedCall /\ idx' = idx + 1) =>
          \A p \in DOMAIN transfers.phases :
              /\ Len(transfers'.phases[p]) = Len(transfers.phases[p]) + 1
              /\ transfers'.phases[p][Len(transfers'.phases[p])].len
                     = Min(CurCeilLength, CurRemaining)
              /\ (CurCeilLength <= CurRemaining) =>
                     transfers'.phases[p][Len(transfers'.phases[p])].len = CurCeilLength]_vars

\* A call for a pair whose size is not a multiple of the chunk count has
\* emitted a descriptor of the full nominal length, rounded up.
C20_Witness ==
    /\ transfers # NoHandler
    /\ HandlerBuilt
    /\ transfer_plan.num_chunks = 2
    /\ \E i \in 1 .. Len(transfers.phases[0]) :
          LET q == transfer_plan.seqs[i]
              x == table[Front(q.seq)][Back(q.seq)]
          IN  /\ x % 2 = 1
              /\ x > 1
              /\ transfers.phases[0][i].len = ((x + 1) \div 2) * q.size
              /\ transfers.phases[0][i].src_pos + transfers.phases[0][i].len
                     < SrcDisp(Front(q.seq), Back(q.seq)) + x

\* ------------------------------------------------- bookkeeping (C21-C26)
\* The descriptor the current call appended to phase p.
Emitted(p) == transfers'.phases[p][Len(transfers'.phases[p])]

\* C21: hop chaining.  Every accepted add_transfer call appends exactly one
\* descriptor to each phase list, all of one length (also when it is 0);
\* descriptor p goes from hop[p] to hop[p+1]; phase 0 reads at the pair's
\* source cursor, the last phase writes at the pair's target cursor, and
\* for p < P-1 the phase-p descriptor writes where the phase-(p+1)
\* descriptor reads, at the intermediate cursor of hop[p+1] before the call.
\* All phase lists always have the same length.
C21_HopChaining ==
    /\ [][(AcceptedCall /\ idx' = idx + 1) =>
            /\ addFailed' = addFailed
            /\ \A p \in DOMAIN transfers.phases :
                  /\ transfers'.phases[p] = Append(transfers.phases[p], Emitted(p))
                  /\ Emitted(p).len = Emitted(0).len
                  /\ Emitted(p).src_gpu = CurSeq[p + 1]
                  /\ Emitted(p).trg_gpu = CurSeq[p + 2]
            /\ Emitted(0).src_pos = transfers.src_offsets[Front(CurSeq)][Back(CurSeq)]
            /\ Emitted(transfer_plan.num_steps - 1).trg_pos
                   = transfers.trg_offsets[Front(CurSeq)][Back(CurSeq)]
            /\ \A p \in 0 .. (transfer_plan.num_steps - 2) :
                  /\ Emitted(p).trg_pos = Emitted(p + 1).src_pos
                  /\ Emitted(p).trg_pos = transfers.phases_offsets[p][CurSeq[p + 2]]]_vars
    /\ []((transfers # NoHandler) =>
            \A p \in DOMAIN transfers.phases :
                Len(transfers.phases[p]) = Len(transfers.phases[0]))

\* In a plan of several phases a call has chained a non-empty descriptor
\* through a non-zero intermediate position, and a call clamped to length 0
\* has appended its descriptors as well.
C21_Witness ==
    /\ transfers # NoHandler
    /\ HandlerBuilt
    /\ transfer_plan.num_steps > 1
    /\ \E i \in 1 .. Len(transfers.phases[0]) :
          /\ transfers.phases[0][i].len > 0
          /\ transfers.phases[1][i].src_pos > 0
    /\ \E i \in 1 .. Len(transfers.phases[1]) :
          /\ transfers.phases[1][i].len = 0
          /\ table[Front(transfer_plan.seqs[i].seq)][Back(transfer_plan.seqs[i].seq)] > 0

RECURSIVE PairLenTo(_, _, _)
\* The lengths emitted so far for pair (s, d): those of the first n
\* descriptors of phase 0 whose hop sequence goes from s to d.
PairLenTo(n, s, d) ==
    IF n = 0 THEN 0
    ELSE PairLenTo(n - 1, s, d)
           + (IF Front(transfer_plan.seqs[n].seq) = s /\ Back(transfer_plan.seqs[n].seq) = d
              THEN transfers.phases[0][n].len ELSE 0)
PairLen(s, d) == PairLenTo(Len(transfers.phases[0]), s, d)

\* C22: cursor invariant.  After any sequence of add_transfer calls, for
\* every pair (s, d) the source cursor and the target cursor are both ahead
\* of their displacement by the sum of the lengths emitted for the pair,
\* that sum is at most sizes[s][d], no cursor ever decreases, and every
\* last-phase descriptor of the pair writes inside
\* [trg_displacements[s][d], trg_displacements[s+1][d]).
C22_CursorInvariant ==
    /\ []((HandlerBuilt /\ ~addFailed) =>
            /\ \A s, d \in Devices :
                  /\ transfers.src_offsets[s][d] - SrcDisp(s, d) = PairLen(s, d)
                  /\ transfers.trg_offsets[s][d] - TrgDisp(s, d) = PairLen(s, d)
                  /\ PairLen(s, d) <= table[s][d]
            /\ \A i \in 1 .. Len(LastPhase) :
                  LET s == Front(transfer_plan.seqs[i].seq)
                      d == Back(transfer_plan.seqs[i].seq)
                  IN  /\ TrgDisp(s, d) <= LastPhase[i].trg_pos
                      /\ LastPhase[i].trg_pos + LastPhase[i].len <= TrgDisp(s + 1, d))
    /\ [][(pc = "add" /\ idx' = idx + 1) =>
            /\ \A s, d \in Devices :
                  /\ transfers'.src_offsets[s][d] >= transfers.src_offsets[s][d]
                  /\ transfers'.trg_offsets[s][d] >= transfers.trg_offsets[s][d]
            /\ \A p \in DOMAIN transfers.phases_offsets : \A d \in Devices :
                  transfers'.phases_offsets[p][d] >= transfers.phases_offsets[p][d]]_vars

\* All hop sequences are processed and a pair with non-zero displacements
\* has been served by two non-empty transfers.
C22_Witness ==
    /\ AllProcessed
    /\ HandlerBuilt
    /\ \E s, d \in Devices : \E i, j \in PairCalls(s, d) :
          /\ i # j
          /\ transfers.phases[0][i].len > 0
          /\ transfers.phases[0][j].len > 0
          /\ SrcDisp(s, d) > 0
          /\ TrgDisp(s, d) > 0
          /\ PairLen(s, d) = table[s][d]

RECURSIVE HopLenTo(_, _, _)
\* The resolved lengths of the first n processed hop sequences whose hop
\* p+1 is device h.
HopLenTo(n, p, h) ==
    IF n = 0 THEN 0
    ELSE HopLenTo(n - 1, p, h)
           + (IF transfer_plan.seqs[n].seq[p + 2] = h
              THEN transfers.phases[0][n].len ELSE 0)

\* Every hop sequence of the plan passes through the one device hub between
\* its two phases.
ThroughHub(pl, hub) ==
    /\ pl.num_steps = 2
    /\ \A i \in 1 .. Len(pl.seqs) : Len(pl.seqs[i].seq) = 3 /\ pl.seqs[i].seq[2] = hub

\* C23: intermediate cursors.  They start at 0; after any sequence of
\* add_transfer calls phases_offsets[p][h] is the sum of the resolved
\* lengths of the processed hop sequences whose hop p+1 is h; with two
\* phases through one hub the hub's cursor is the sum of all flows once all
\* sequences are processed; and a call reads the intermediate cursors for
\* its descriptors before it advances them.
C23_IntermediateCursors ==
    /\ []((HandlerBuilt /\ ~addFailed) =>
            /\ \A p \in DOMAIN transfers.phases_offsets : \A h \in Devices :
                  /\ transfers.phases_offsets[p][h]
                         = HopLenTo(Len(transfers.phases[0]), p, h)
                  /\ (pc = "add" /\ idx = 1) => (transfers.phases_offsets[p][h] = 0)
            /\ \A hub \in Devices :
                  (AllProcessed /\ ThroughHub(transfer_plan, hub)) =>
                      transfers.phases_offsets[0][hub] = GrandTotal(table))
    /\ [][(AcceptedCall /\ idx' = idx + 1) =>
            \A p \in DOMAIN transfers.phases_offsets :
                /\ Emitted(p).trg_pos = transfers.phases_offsets[p][CurSeq[p + 2]]
                /\ Emitted(p + 1).src_pos = transfers.phases_offsets[p][CurSeq[p + 2]]
                /\ transfers'.phases_offsets[p][CurSeq[p + 2]]
                       = transfers.phases_offsets[p][CurSeq[p + 2]] + Emitted(p).len]_vars

\* All sequences of a three-phase plan are processed with non-zero cursors
\* in both intermediate rows.
C23_Witness ==
    /\ AllProcessed
    /\ HandlerBuilt
    /\ transfer_plan.num_steps = 3
    /\ transfers.phases_offsets[0][0] = GrandTotal(table)
    /\ transfers.phases_offsets[1][1] = GrandTotal(table)
    /\ GrandTotal(table) > 2

\* C24: race freedom inside a phase.  Within each phase two distinct
\* descriptors with the same target device write disjoint ranges; in the
\* captured graph two distinct copies of a phase write disjoint cells and no
\* copy of a phase reads a buffer that a copy of the same phase writes.
C24_RaceFreedom ==
    /\ HandlerBuilt =>
          \A p \in DOMAIN transfers.phases :
              \A i, j \in 1 .. Len(transfers.phases[p]) :
                  (i # j /\ transfers.phases[p][i].trg_gpu = transfers.phases[p][j].trg_gpu) =>
                      ~Overlap(p, transfers.phases[p][i].trg_pos, transfers.phases[p][i].len,
                               p, transfers.phases[p][j].trg_pos, transfers.phases[p][j].len)
    /\ (running # NoGraph) =>
          \A p \in DOMAIN running : \A i, j \in 1 .. Len(running[p]) :
              /\ running[p][i].from # running[p][j].to
              /\ (i # j) =>
                    ~Overlap(running[p][i].to, running[p][i].to_pos, running[p][i].len,
                             running[p][j].to, running[p][j].to_pos, running[p][j].len)

\* In a phase of a launched graph of several phases two non-empty copies
\* from different devices, hence on different streams, write the same
\* buffer, and one of them has completed while the other has not.
C24_Witness ==
    /\ running # NoGraph
    /\ transfer_plan.num_steps > 1
    /\ \E p \in DOMAIN running : \E i, j \in 1 .. Len(running[p]) :
          /\ running[p][i].to = running[p][j].to
          /\ running[p][i].src_gpu # running[p][j].src_gpu
          /\ running[p][i].len > 0
          /\ running[p][j].len > 0
          /\ <<p, i>> \in done
          /\ <<p, j>> \notin done

\* The descriptors a graph was captured from: its copies without the
\* buffer pointers.
LayoutOf(graph) ==
    [p \in DOMAIN graph |->
        [i \in DOMAIN graph[p] |->
            [src_gpu |-> graph[p][i].src_gpu,
             src_pos |-> graph[p][i].from_pos,
             trg_gpu |-> graph[p][i].trg_gpu,
             trg_pos |-> graph[p][i].to_pos,
             len     |-> graph[p][i].len]]]

\* The loop over the plan's sequences has ended.
LoopEnded ==
    /\ HandlerBuilt
    /\ transfers # NoHandler
    /\ (pc = "add") => (idx > Len(transfer_plan.seqs))

RejectedCall ==
    /\ pc = "add"
    /\ idx <= Len(transfer_plan.seqs)
    /\ Len(CurSeq) # transfer_plan.num_steps + 1

\* The hop sequences of the plan that have P + 1 hops, in plan order.
WellFormedSeqs(pl) == SelectSeq(pl.seqs, LAMBDA q : Len(q.seq) = pl.num_steps + 1)

\* C26: a rejected hop sequence leaves the bookkeeper unchanged.  A call
\* add_transfer with a hop sequence that has not P + 1 hops returns false,
\* appends no descriptor and moves no cursor; when the loop has ended the
\* handler is the one the well-formed sequences alone produce.
C26_RejectedLeavesUnchanged ==
    /\ [][(RejectedCall /\ idx' = idx + 1) =>
            (addFailed' /\ transfers' = transfers)]_vars
    /\ []((pc = "add" /\ idx > Len(transfer_plan.seqs)) =>
            transfers = AddAll(TransferHandler(SrcDisplacements(send_counts),
                                               TrgDisplacements(send_counts),
                                               send_counts, transfer_plan.num_steps,
                                               transfer_plan.num_chunks),
                               WellFormedSeqs(transfer_plan),
                               Len(WellFormedSeqs(transfer_plan))))

\* A hop sequence was rejected and a later, well-formed one has emitted a
\* non-empty descriptor.
C26_Witness ==
    /\ addFailed
    /\ AllProcessed
    /\ HandlerBuilt
    /\ Len(transfers.phases[0]) = Len(transfer_plan.seqs) - 1
    /\ Len(transfers.phases[0]) > 1
    /\ transfers.phases[0][Len(transfers.phases[0])].len > 0

\* ------------------------------------------------ launches (C27-C30)
\* C27: run to completion.  The dependencies a capture creates go from a
\* copy to copies captured later only, so that they have no cycle; with
\* streams scheduled fairly every copy of a launched graph eventually
\* completes.
C27_RunToCompletion ==
    /\ [](JustCaptured =>
            LET order == CaptureOrder(CapturedGraph)
            IN  \A m, n \in Nodes(CapturedGraph) :
                    (<<m, n>> \in order) => (Earlier(m, n) /\ <<n, m>> \notin order))
    /\ (running # NoGraph /\ ~AllDone) ~> AllDone

\* Every copy of a launched three-phase graph has completed, copies on
\* different streams among them.
C27_Witness ==
    /\ engine = "graph"
    /\ launches = 1
    /\ running # NoGraph
    /\ AllDone
    /\ transfer_plan.num_steps = 3
    /\ \E m, n \in done :
          /\ m[1] = n[1]
          /\ running[m[1]][m[2]].trg_gpu # running[n[1]][n[2]].trg_gpu
          /\ running[m[1]][m[2]].len > 0
          /\ running[n[1]][n[2]].len > 0

\* C28: launch precondition.  Once a prepareExec of an all2all_graph_t has
\* returned true the engine holds an executable and keeps one until it is
\* torn down, so that the assertion of every later launch holds; a launch
\* is made only with an executable, and the assertion fails only when no
\* update_graph has ever instantiated one.
C28_LaunchPrecondition ==
    /\ []((engine = "graph" /\ pc = "idle" /\ ret = "true") => execgraphTotal # NoExec)
    /\ [][(engine = "graph" /\ execgraphTotal # NoExec) => (execgraphTotal' # NoExec)]_vars
    /\ [][(engine = "graph" /\ launches' = launches + 1) =>
              (execgraphTotal # NoExec /\ pc' = "idle")]_vars
    /\ []((pc = "aborted") =>
              (execgraphTotal = NoExec /\ cuda.live = 0 /\ cuda.passes = 0 /\ ret # "true"))

\* A launch has been made after a prepareExec that returned false before
\* its capture: it replays the executable of an earlier call.
C28_Witness ==
    /\ engine = "graph"
    /\ launches = 1
    /\ ret = "false"
    /\ transfers = NoHandler
    /\ execgraphTotal # NoExec
    /\ running = execgraphTotal.graph
    /\ AllDone

\* C29: a failed prepare does not change what launch replays.  Whenever a
\* prepareExec of an all2all_graph_t has returned false, the engine's
\* executable is the one it held when the call began.
C29_FailedPrepareKeepsExecutable ==
    (engine = "graph" /\ Returned /\ ret = "false") => (execgraphTotal = exec0)

\* A prepareExec that found an executable returned false for an overrun,
\* and the launch after it has run copies that are not those of the
\* executable the call found.
C29_Witness ==
    /\ engine = "graph"
    /\ pc = "idle"
    /\ ret = "false"
    /\ launches = 1
    /\ exec0 # NoExec
    /\ running # exec0.graph
    /\ AllDone
    /\ fault

\* A prepareExec that returns false before the capture leaves the
\* executable as it was.
FailedBeforeCaptureKeepsExecutable ==
    (engine = "graph" /\ Returned /\ ret = "false" /\ transfers = NoHandler) =>
        (execgraphTotal = exec0)

\* The declared length of the buffer phase p writes on device dev: the
\* target buffers in even phases, the source buffers in odd ones.
WrittenLen(p, dev) == IF p % 2 = 0 THEN dsts_lens[dev] ELSE srcs_lens[dev]
WritesInside(p) ==
    \A i \in 1 .. Len(transfers.phases[p]) :
        (transfers.phases[p][i].len > 0) =>
            (transfers.phases[p][i].trg_pos + transfers.phases[p][i].len
                 <= WrittenLen(p, transfers.phases[p][i].trg_gpu))

\* C30: writes stay inside the buffer actually written.  Whenever a call
\* has returned true, every descriptor of every phase p writes a range
\* within dsts_lens[trg_gpu] when p is even and within srcs_lens[trg_gpu]
\* when p is odd.
C30_WritesInside ==
    (Returned /\ ret = "true") =>
        \A p \in DOMAIN transfers.phases : WritesInside(p)

\* The part of it the size checks establish: the writes of the even phases
\* are within dsts_lens.
EvenPhaseWritesInside ==
    (Returned /\ ret = "true") =>
        \A p \in DOMAIN transfers.phases : (p % 2 = 0) => WritesInside(p)

\* A call has returned true although an odd phase writes beyond srcs_lens,
\* and the copies have run and left the buffer.
C30_Witness ==
    /\ Returned
    /\ ret = "true"
    /\ \E p \in DOMAIN transfers.phases : p % 2 = 1 /\ ~WritesInside(p)
    /\ \A s \in Devices : RowSum(table, s) <= srcs_lens[s]
    /\ launches = 1
    /\ AllDone
    /\ fault

\* ------------------------------------------------------ source reads (C31)
\* The phase-0 descriptors read from the caller's source buffers.
ReadsInside(limit) ==
    \A i \in 1 .. Len(transfers.phases[0]) :
        (transfers.phases[0][i].len > 0) =>
            (transfers.phases[0][i].src_pos + transfers.phases[0][i].len
                 <= limit[transfers.phases[0][i].src_gpu])

\* The call was made with a row of the table longer than its source buffer.
RowExceedsSource == \E s \in Devices : RowSum(table, s) > srcs_lens[s]

\* C31: reads stay inside the source buffer.  Whenever a call has returned
\* true, every phase-0 descriptor reads a range [src_pos, src_pos + len)
\* within srcs_lens[src_gpu]; equivalently, a call made with a row sum of
\* the table above srcs_lens of that device does not return true.
C31_ReadsInside ==
    (Returned /\ ret = "true") => (ReadsInside(srcs_lens) /\ ~RowExceedsSource)

\* What the cursors establish: the reads of phase 0 stay within the row
\* of the table of the sending device.
ReadsInsideRow ==
    (Returned /\ ret = "true") =>
        ReadsInside([s \in Devices |-> RowSum(table, s)])

\* A call made with a row longer than its source buffer has returned true
\* with a phase-0 descriptor that reads beyond srcs_lens, and the copies
\* have run and left the buffer.
C31_Witness ==
    /\ Returned
    /\ ret = "true"
    /\ RowExceedsSource
    /\ ~ReadsInside(srcs_lens)
    /\ launches = 1
    /\ AllDone
    /\ fault
====
